---- MODULE Spec2Model ----
(***************************************************************************)
(* Blackbox Exporter operator (src/src/charm.py): the reconciliation of    *)
(* the workload configuration, the shared snap lifecycle and the scrape    *)
(* job composition, as a state machine.                                    *)
(*                                                                         *)
(* Three specifications share the variables:                               *)
(*   Spec      one hook of the local unit per step, run to completion,     *)
(*             with co-located sibling consumers and the environment;      *)
(*   SpecConc  the install and teardown of co-located consumers, one       *)
(*             external call per step, interleaved;                        *)
(*   SpecJobs  the scrape job composition applied to bounded inputs.       *)
(***************************************************************************)
EXTENDS Integers, Sequences, FiniteSets, TLC

(***************************************************************************)
(* Bounds of the model.                                                    *)
(***************************************************************************)
\* Co-located consumers of the snap (units on the same machine): 0..NumUnits-1.
NumUnits == 2
\* Remote units on the peer relation: 1..MaxPeers.
MaxPeers == 2
\* Network interfaces a peer publishes: 0..MaxIfaces.
MaxIfaces == 2

Units == 0 .. (NumUnits - 1)
\* The unit whose hooks Spec runs in full.
LocalUnit == CHOOSE u \in Units : \A v \in Units : u <= v
Siblings == Units \ {LocalUnit}
\* SnapMap.get_revision: the snap revision the charm of a unit pins.  The
\* units of the model run charm revisions that pin 3 and 5 in turn.
Revision(unit) == IF unit % 2 = 0 THEN 3 ELSE 5

(***************************************************************************)
(* Python values.                                                          *)
(***************************************************************************)
\* Python's None, for an unset option and for a missing file; it differs
\* from every string content the model uses.
None == "<None>"

\* `not s` for an Optional[str].
Falsy(s) == s = None \/ s = ""

Max(S) == CHOOSE m \in S : \A n \in S : n <= m

RECURSIVE SumSeq(_)
SumSeq(s) == IF s = <<>> THEN 0 ELSE Head(s) + SumSeq(Tail(s))

\* All orders in which a set may be iterated.
Perms(S) == {s \in [1 .. Cardinality(S) -> S] : \A e \in S : \E i \in DOMAIN s : s[i] = e}

(***************************************************************************)
(* constants.py and the process environment.                               *)
(***************************************************************************)
SNAP_NAME == "prometheus-blackbox-exporter"
PEERS_RELATION_NAME == "peers"
DEFAULT_PORT == "9115"
PRINCIPAL_HOSTNAME == "hostname"
\* juju_context("principal_unit"), juju_context("availability_zone"),
\* and the bind address of juju-info (_machine_ip).
principal_unit == "ubuntu/0"
availability_zone == "zone-a"
_machine_ip == "10.0.0.1"

\* The default configuration text.
DEFAULT_CONFIG_FILE == "modules: {http_2xx: {prober: http}, tcp_connect: {prober: tcp}, icmp: {prober: icmp}}"

(***************************************************************************)
(* config_file values.  A content is its text; yaml_safe_load gives what   *)
(* yaml.safe_load does on that text: an exception, or the parsed value     *)
(* tagged with its Python type.                                            *)
(***************************************************************************)
VALID_CONFIG == "modules: {icmp: {prober: icmp, timeout: 10s}}"
VALID_YAML_WITH_BAD_MODULES == "modules: {non-existing-module: {prober: tcp}}"
INVALID_YAML_CONFIG == "modules:\nsomething\n    somethingelse:"
NO_MODULES_CONFIG == "tcp_connect: {prober: tcp}"
MODULES_NOT_MAPPING_CONFIG == "modules: [icmp, tcp_connect]"
SCALAR_CONFIG == "just a string"

YMap(m) == [kind |-> "map", map |-> m]
YOther(k) == [kind |-> k]
Loaded(v) == [raised |-> FALSE, value |-> v]
YamlError == [raised |-> TRUE]

yaml_safe_load(text) ==
    CASE text = DEFAULT_CONFIG_FILE ->
           Loaded(YMap([modules |-> YMap([http_2xx |-> YMap([prober |-> YOther("str")]),
                                          tcp_connect |-> YMap([prober |-> YOther("str")]),
                                          icmp |-> YMap([prober |-> YOther("str")])])]))
      [] text = VALID_CONFIG ->
           Loaded(YMap([modules |-> YMap([icmp |-> YMap([prober |-> YOther("str"),
                                                          timeout |-> YOther("str")])])]))
      [] text = VALID_YAML_WITH_BAD_MODULES ->
           Loaded(YMap([modules |-> YMap(("non-existing-module" :> YMap([prober |-> YOther("str")])))]))
      [] text = INVALID_YAML_CONFIG -> YamlError
      [] text = NO_MODULES_CONFIG ->
           Loaded(YMap([tcp_connect |-> YMap([prober |-> YOther("str")])]))
      [] text = MODULES_NOT_MAPPING_CONFIG ->
           Loaded(YMap([modules |-> YOther("list")]))
      [] text = SCALAR_CONFIG -> Loaded(YOther("str"))
      [] OTHER -> YamlError

\* A validator that accepts every mapping, with or without `modules`.
Config_raises_mapping_only(provided_config) ==
    provided_config.kind # "map"

\* Config(**provided_config) raises: a TypeError when the value is no
\* mapping, a ValidationError when `modules` is missing or is no dict.
Config_raises(provided_config) ==
    \/ provided_config.kind # "map"
    \/ "modules" \notin DOMAIN provided_config.map
    \/ provided_config.map["modules"].kind # "map"

\* The values the config_file option takes in the model.
ConfigInputs ==
    {None, "", VALID_CONFIG, VALID_YAML_WITH_BAD_MODULES, INVALID_YAML_CONFIG,
     NO_MODULES_CONFIG, MODULES_NOT_MAPPING_CONFIG, SCALAR_CONFIG}

(***************************************************************************)
(* Statuses, as the tuples kept in StoredState.                            *)
(***************************************************************************)
ActiveStatus == <<"active", "">>
BlockedStatus(message) == <<"blocked", message>>
MaintenanceStatus(message) == <<"maintenance", message>>
WaitingStatus(message) == <<"waiting", message>>
\* No status written (the entry, or the unit status, is left as it was).
Keep == <<"keep", "">>

\* set_default(status=CompositeStatus(...)).
CompositeStatus == [snap |-> ActiveStatus, config |-> ActiveStatus, probes_file |-> ActiveStatus]

(***************************************************************************)
(* The snap runtime (charms.operator_libs_linux.v2.snap) as the charm sees *)
(* it: the snap is absent, or present with its service inactive or active. *)
(* A call ends "ok" or raises the exception named by its outcome.          *)
(***************************************************************************)
SnapOutcomes == {"ok", "SnapError"}

\* A snap that is not installed has no service to start or restart.
Outcome(snapState, outcome) == IF snapState = "absent" THEN "SnapError" ELSE outcome

\* is_snap_active: some line of `snap services` names the snap as active.
is_snap_active(snapState) == snapState = "active"

(***************************************************************************)
(* The shared registration store (singleton_snap.SingletonSnapManager):    *)
(* one record per consumer of the snap, with the revision it asked for.    *)
(***************************************************************************)
register(registry, unit, revision) ==
    {r \in registry : r.unit # unit} \cup {[unit |-> unit, rev |-> revision]}

unregister(registry, unit, revision) == {r \in registry : r.unit # unit}

get_revisions(registry) == {r.rev : r \in registry}

is_used_by_other_units(registry, unit) == \E r \in registry : r.unit # unit

\* install_snap (snap_management): the snap is present at the revision the
\* charm pins; a snap that was absent is installed with its service not yet
\* started by the charm.
install_snap(snap, revision) ==
    [state |-> IF snap.state = "absent" THEN "inactive" ELSE snap.state, rev |-> revision]

(***************************************************************************)
(* _push_config: what it returns, what it writes, the config status entry. *)
(***************************************************************************)
NoWrite == "<no write>"
ConfigInvalid == BlockedStatus("Config file is invalid; see debug-log")

\* The short-circuit of lines 155-157.
\* The comparison without its second clause: an unset or empty option is
\* not recognised as the default already in place.
ConfigUnchanged_same_only(config, current_config) ==
    current_config = config

\* The comparison without its first clause: content equal to the file is
\* not recognised as already in place.
ConfigUnchanged_default_only(config, current_config) ==
    current_config = DEFAULT_CONFIG_FILE /\ Falsy(config)

ConfigUnchanged(config, current_config) ==
    \/ current_config = config
    \/ (current_config = DEFAULT_CONFIG_FILE /\ Falsy(config))

\* No substitution: the option is validated as it was given.
EffectiveConfig_as_given(config) == config

\* Lines 159-161: an empty or unset option stands for the default.
EffectiveConfig(config) == IF Falsy(config) THEN DEFAULT_CONFIG_FILE ELSE config

\* A push that writes the file before it validates the content.
_push_config_write_first(config, current_config) ==
    IF ConfigUnchanged(config, current_config)
    THEN [ret |-> FALSE, write |-> NoWrite, status |-> Keep]
    ELSE LET text == EffectiveConfig(config)
             loaded == yaml_safe_load(text)
         IN  IF loaded.raised
             THEN [ret |-> FALSE, write |-> text, status |-> ConfigInvalid]
             ELSE IF Config_raises(loaded.value)
             THEN [ret |-> FALSE, write |-> text, status |-> ConfigInvalid]
             ELSE [ret |-> TRUE, write |-> text, status |-> ActiveStatus]

_push_config(config, current_config) ==
    IF ConfigUnchanged(config, current_config)
    THEN [ret |-> FALSE, write |-> NoWrite, status |-> Keep]
    ELSE LET text == EffectiveConfig(config)
             loaded == yaml_safe_load(text)
         IN  IF loaded.raised
             THEN [ret |-> FALSE, write |-> NoWrite, status |-> ConfigInvalid]
             ELSE IF Config_raises(loaded.value)
             THEN [ret |-> FALSE, write |-> NoWrite, status |-> ConfigInvalid]
             ELSE [ret |-> TRUE, write |-> text, status |-> ActiveStatus]

(***************************************************************************)
(* _restart_snap: the restart, with the exceptions it catches.             *)
(***************************************************************************)
\* A restart that catches nothing.
RestartCaught_none == {}

\* Line 225: except snap.SnapError.
RestartCaught == {"SnapError"}

_restart_snap(snap, outcome) ==
    LET o == Outcome(snap.state, outcome)
    IN  [snap   |-> IF o = "ok" THEN [snap EXCEPT !.state = "active"] ELSE snap,
         raised |-> o # "ok" /\ o \notin RestartCaught]

(***************************************************************************)
(* _install_snaps.                                                         *)
(***************************************************************************)
\* The comparison made strict: a unit holding the highest revision itself
\* would not install.
ShouldInstall_strict(snap_revision, revisions) ==
    snap_revision > (IF revisions # {} THEN Max(revisions) ELSE 0)

\* Line 205: snap_revision >= (max(revisions) if revisions else 0).
ShouldInstall(snap_revision, revisions) ==
    snap_revision >= (IF revisions # {} THEN Max(revisions) ELSE 0)

\* Lines 214-219: the start, the workload status entry it leaves, and
\* whether the exception leaves _install_snaps.
StartSnap(snap, outcome) ==
    LET o == Outcome(snap.state, outcome)
    IN  IF o = "ok"
        THEN [snap |-> [snap EXCEPT !.state = "active"], status |-> ActiveStatus,
              raised |-> FALSE, outcome |-> o]
        ELSE [snap |-> snap, status |-> Keep, raised |-> o # "SnapError", outcome |-> o]

_install_snaps(unit, snap_revision, registry, snap, outcome) ==
    LET registered == register(registry, unit, snap_revision)
        revisions == get_revisions(registered)
    IN  IF ShouldInstall(snap_revision, revisions)
        THEN LET installed == install_snap(snap, snap_revision)
                 started == StartSnap(installed, outcome)
             IN  [registry |-> registered, snap |-> started.snap,
                  status |-> started.status, raised |-> started.raised,
                  start |-> started.outcome,
                  calls |-> <<"register", "get_revisions", "install_snap", "start">>]
        ELSE [registry |-> registered, snap |-> snap, status |-> Keep, raised |-> FALSE,
              start |-> "none",
              calls |-> <<"register", "get_revisions">>]

(***************************************************************************)
(* _remove_blackbox_exporter and _remove_snap.                             *)
(***************************************************************************)
RemoveCaught == {"SnapError", "SnapSpecError"}

\* ensure(state=Absent), with the exceptions _remove_snap catches.
_remove_snap(snap, outcome) ==
    [snap   |-> IF outcome = "ok" THEN [state |-> "absent", rev |-> 0] ELSE snap,
     raised |-> outcome # "ok" /\ outcome \notin RemoveCaught]

\* Lines 236-243: restart for the remaining consumers, or remove.
\* A teardown that removes the snap whoever else uses it.
TeardownCall_remove(used_by_others) == "remove"

TeardownCall(used_by_others) == IF used_by_others THEN "restart" ELSE "remove"

_remove_blackbox_exporter(unit, snap_revision, registry, snap, outcome) ==
    LET unregistered == unregister(registry, unit, snap_revision)
        call == TeardownCall(is_used_by_other_units(unregistered, unit))
        done == IF call = "restart" THEN _restart_snap(snap, outcome)
                ELSE [snap |-> _remove_snap(snap, outcome).snap, raised |-> FALSE]
    IN  [registry |-> unregistered, snap |-> done.snap, raised |-> done.raised,
         calls |-> <<"unregister", "is_used_by_other_units", call>>]

(***************************************************************************)
(* _collect_unit_status: the statuses added, and the one ops reports (the  *)
(* highest priority, the first added among equals).                        *)
(***************************************************************************)
SnapInactive == BlockedStatus("Snap prometheus-blackbox-exporter is inactive; see debug-log")

Priority(status) ==
    CASE status[1] = "blocked" -> 4
      [] status[1] = "maintenance" -> 3
      [] status[1] = "waiting" -> 2
      [] status[1] = "active" -> 1
      [] OTHER -> 0

\* The last added among the statuses of the highest priority.
HighestPriority_last(statuses) ==
    LET top == Max({Priority(statuses[i]) : i \in DOMAIN statuses})
        final == CHOOSE i \in DOMAIN statuses :
                    /\ Priority(statuses[i]) = top
                    /\ \A j \in DOMAIN statuses : Priority(statuses[j]) = top => i >= j
    IN  statuses[final]

HighestPriority(statuses) ==
    LET top == Max({Priority(statuses[i]) : i \in DOMAIN statuses})
        first == CHOOSE i \in DOMAIN statuses :
                    /\ Priority(statuses[i]) = top
                    /\ \A j \in DOMAIN statuses : Priority(statuses[j]) = top => i <= j
    IN  statuses[first]

\* A composition that adds the live check before the stored entries.
_collect_unit_status_live_first(status, snapState) ==
    LET pushed == <<status.snap, status.config, status.probes_file>>
        added == IF ~is_snap_active(snapState) THEN <<SnapInactive>> \o pushed ELSE pushed
    IN  HighestPriority(added)

_collect_unit_status(status, snapState) ==
    LET pushed == <<status.snap, status.config, status.probes_file>>
        added == IF ~is_snap_active(snapState) THEN Append(pushed, SnapInactive) ELSE pushed
    IN  HighestPriority(added)

(***************************************************************************)
(* probes_file values, and what yaml.safe_load gives on each.  A parsed    *)
(* mapping is a function from its keys, a parsed list a sequence.          *)
(***************************************************************************)
VALID_PROBES_FILE == "scrape_configs: [check-charmhub-connectivity]"
LABELLED_PROBES_FILE == "scrape_configs: [first, second with labels]"
INVALID_PROBES_FILE == "scrape_configs: [missing_job_name]"
MALFORMED_PROBES_FILE == "scrape_configs: [\n - :"
SCALAR_PROBES_FILE == "probes"
PARTLY_INVALID_PROBES_FILE == "scrape_configs: [first, second on /metrics]"
LIST_PROBES_FILE == "[probes]"
NULL_PROBES_FILE == "~"

ProbesInputs ==
    {None, "", VALID_PROBES_FILE, LABELLED_PROBES_FILE, INVALID_PROBES_FILE,
     MALFORMED_PROBES_FILE, SCALAR_PROBES_FILE, PARTLY_INVALID_PROBES_FILE,
     LIST_PROBES_FILE, NULL_PROBES_FILE}

probes_safe_load(text) ==
    CASE text = VALID_PROBES_FILE ->
           Loaded(YMap([scrape_configs |-> <<
               [job_name |-> "check-charmhub-connectivity", metrics_path |-> "/probe",
                params |-> [module |-> <<"http_2xx">>], modules |-> <<"http_2xx">>,
                static_configs |-> <<[targets |-> <<"https://charmhub.io", "https://ububtu.com">>]>>] >>]))
      [] text = LABELLED_PROBES_FILE ->
           Loaded(YMap([scrape_configs |-> <<
               [job_name |-> "first", metrics_path |-> "/probe",
                params |-> [module |-> <<"tcp_connect">>],
                static_configs |-> <<[targets |-> <<"10.1.1.1:22">>]>>],
               [job_name |-> "second", metrics_path |-> "/probe",
                params |-> [module |-> <<"icmp">>],
                static_configs |-> <<[targets |-> <<"10.1.1.2">>,
                                      labels |-> [source |-> "user", team |-> "net"]],
                                     [targets |-> <<"10.1.1.3">>]>>] >>]))
      [] text = INVALID_PROBES_FILE ->
           Loaded(YMap([scrape_configs |-> <<
               [missing_job_name |-> "check-charmhub-connectivity", metrics_path |-> "/probe",
                params |-> [module |-> <<"http_2xx">>], modules |-> <<"http_2xx">>,
                static_configs |-> <<[targets |-> <<"https://charmhub.io", "https://ububtu.com">>]>>] >>]))
      [] text = PARTLY_INVALID_PROBES_FILE ->
           Loaded(YMap([scrape_configs |-> <<
               [job_name |-> "first", metrics_path |-> "/probe",
                params |-> [module |-> <<"tcp_connect">>],
                static_configs |-> <<[targets |-> <<"10.1.1.1:22">>]>>],
               [job_name |-> "second", metrics_path |-> "/metrics",
                params |-> [module |-> <<"icmp">>],
                static_configs |-> <<[targets |-> <<"10.1.1.2">>]>>] >>]))
      [] text = SCALAR_PROBES_FILE -> Loaded(YOther("str"))
      [] text = LIST_PROBES_FILE -> Loaded(YOther("list"))
      [] text = NULL_PROBES_FILE -> Loaded(YOther("NoneType"))
      [] OTHER -> YamlError

(***************************************************************************)
(* models.py: the probes schema.                                           *)
(***************************************************************************)
\* str.strip() on the job names of the model.
strip(v) == IF v \in {" ", "  "} THEN "" ELSE v

\* A static config that only has to have a `targets` key.
StaticConfig_valid_any_targets(static_config) ==
    "targets" \in DOMAIN static_config

StaticConfig_valid(static_config) ==
    /\ "targets" \in DOMAIN static_config
    /\ Len(static_config.targets) >= 1

ScrapeJob_valid(job) ==
    /\ "job_name" \in DOMAIN job
    /\ strip(job.job_name) # ""
    /\ "metrics_path" \in DOMAIN job
    /\ job.metrics_path = "/probe"
    /\ "params" \in DOMAIN job
    /\ "static_configs" \in DOMAIN job
    /\ Len(job.static_configs) >= 1
    /\ \A i \in DOMAIN job.static_configs : StaticConfig_valid(job.static_configs[i])

\* A schema that looks at the first entry of scrape_configs only.
ProbesFile_first_entry(probes_yaml) ==
    IF probes_yaml.kind # "map" THEN "TypeError"
    ELSE IF /\ "scrape_configs" \in DOMAIN probes_yaml.map
            /\ Len(probes_yaml.map.scrape_configs) >= 1
            /\ ScrapeJob_valid(probes_yaml.map.scrape_configs[1])
         THEN "ok"
         ELSE "ValidationError"

\* ProbesFile(**probes_yaml): "ok", or the exception it raises.
ProbesFile(probes_yaml) ==
    IF probes_yaml.kind # "map" THEN "TypeError"
    ELSE IF /\ "scrape_configs" \in DOMAIN probes_yaml.map
            /\ Len(probes_yaml.map.scrape_configs) >= 1
            /\ \A i \in DOMAIN probes_yaml.map.scrape_configs :
                   ScrapeJob_valid(probes_yaml.map.scrape_configs[i])
         THEN "ok"
         ELSE "ValidationError"

(***************************************************************************)
(* The scrape jobs.                                                        *)
(***************************************************************************)
extra_labels == [source |-> principal_unit, source_hostname |-> PRINCIPAL_HOSTNAME]

\* The labels merged the other way round: a label of the probes file wins.
WithExtraLabels_probe_wins(static_config) ==
    IF "labels" \notin DOMAIN static_config
    THEN static_config @@ [labels |-> extra_labels]
    ELSE [static_config EXCEPT !.labels = @ @@ extra_labels]

\* Lines 380-383: the labels of one static config, the extra labels last.
WithExtraLabels(static_config) ==
    IF "labels" \notin DOMAIN static_config
    THEN static_config @@ [labels |-> extra_labels]
    ELSE [static_config EXCEPT !.labels = extra_labels @@ @]

\* Lines 374-383: one custom job, renamed and labelled.
Sanitized(job) ==
    [job EXCEPT !.job_name = PRINCIPAL_HOSTNAME \o "-" \o @,
                !.static_configs = [i \in DOMAIN @ |-> WithExtraLabels(@[i])]]

\* The exceptions of ProbesFile(**probes_yaml) that _custom_scrape_jobs catches.
ProbesCaught == {"ValidationError"}

\* Lines 351-386 on what yaml.safe_load gave.
CustomJobs(loaded) ==
    IF loaded.raised
    THEN [jobs |-> <<>>, raised |-> FALSE,
          status |-> BlockedStatus("Error when validating probes file; see debug-log")]
    ELSE LET checked == ProbesFile(loaded.value)
         IN  IF checked = "ok"
             THEN [jobs |-> [i \in DOMAIN loaded.value.map.scrape_configs |->
                                Sanitized(loaded.value.map.scrape_configs[i])],
                   raised |-> FALSE, status |-> ActiveStatus]
             ELSE IF checked \in ProbesCaught
             THEN [jobs |-> <<>>, raised |-> FALSE,
                   status |-> BlockedStatus("Invalid probes file; see debug-log")]
             ELSE [jobs |-> <<>>, raised |-> TRUE, status |-> Keep]

_custom_scrape_jobs(probes_file) == CustomJobs(probes_safe_load(probes_file))

_self_metrics ==
    [job_name |-> "be-self-monitoring", metrics_path |-> "/metrics",
     static_configs |-> <<[targets |-> <<_machine_ip \o ":" \o DEFAULT_PORT>>]>>,
     scrape_timeout |-> "10s"]

\* json.dumps and json.loads on the lists of networks.
json_dumps(v) == [json |-> v]
json_loads(s) == s.json

\* dict.get(key, default).
Get(d, key, default) == IF key \in DOMAIN d THEN d[key] ELSE default

\* One entry per peer, holding all the addresses of the peer as targets.
PeerStaticConfigs_merged(rel_data) ==
    LET unit_networks == json_loads(Get(rel_data, "unit-networks", json_dumps(<<>>)))
    IN  IF unit_networks = <<>>
        THEN <<>>
        ELSE <<[targets |-> [i \in DOMAIN unit_networks |-> unit_networks[i].ip],
                labels |-> [interface |-> unit_networks[1].iface,
                            source |-> principal_unit,
                            source_hostname |-> PRINCIPAL_HOSTNAME,
                            destination |-> rel_data["principal-unit"],
                            destination_hostname |-> rel_data["principal-hostname"],
                            source_az |-> availability_zone,
                            destination_az |-> rel_data["az"],
                            probe |-> "icmp"]]>>

\* Lines 297-311: the static configs of one peer, one per network.
PeerStaticConfigs(rel_data) ==
    LET unit_networks == json_loads(Get(rel_data, "unit-networks", json_dumps(<<>>)))
    IN  [i \in DOMAIN unit_networks |->
            [targets |-> <<unit_networks[i].ip>>,
             labels |-> [interface |-> unit_networks[i].iface,
                         source |-> principal_unit,
                         source_hostname |-> PRINCIPAL_HOSTNAME,
                         destination |-> rel_data["principal-unit"],
                         destination_hostname |-> rel_data["principal-hostname"],
                         source_az |-> availability_zone,
                         destination_az |-> rel_data["az"],
                         probe |-> "icmp"]]]

\* Lines 290-311: the loop over relation.units, in the order of iteration.
RECURSIVE ConnectivityStaticConfigs(_, _)
ConnectivityStaticConfigs(data, order) ==
    IF order = <<>> THEN <<>>
    ELSE PeerStaticConfigs(data[Head(order)]) \o ConnectivityStaticConfigs(data, Tail(order))

_connectivity_scrape_jobs(relation, order) ==
    [job_name |-> PRINCIPAL_HOSTNAME \o "-connectivity-checks",
     metrics_path |-> "/probe",
     params |-> [module |-> <<"icmp">>],
     scrape_interval |-> "60s",
     static_configs |-> ConnectivityStaticConfigs(relation.data, order),
     relabel_configs |-> <<[source_labels |-> <<"__address__">>, target_label |-> "__param_target"],
                           [source_labels |-> <<"__param_target">>, target_label |-> "instance"],
                           [target_label |-> "__address__", replacement |-> _machine_ip \o ":9115"]>>]

\* Lines 412-417: the connectivity job is added when get_relation gives a relation.
ConnectivityJobs(relation, order) ==
    IF relation.exists THEN <<_connectivity_scrape_jobs(relation, order)>> ELSE <<>>

\* The custom jobs put before the connectivity job.
_all_scrape_jobs_custom_first(relation, order, probes_file) ==
    LET custom == IF ~Falsy(probes_file) THEN _custom_scrape_jobs(probes_file)
                  ELSE [jobs |-> <<>>, raised |-> FALSE, status |-> Keep]
    IN  [jobs |-> <<_self_metrics>> \o custom.jobs \o ConnectivityJobs(relation, order),
         raised |-> custom.raised, status |-> custom.status]

_all_scrape_jobs(relation, order, probes_file) ==
    LET custom == IF ~Falsy(probes_file) THEN _custom_scrape_jobs(probes_file)
                  ELSE [jobs |-> <<>>, raised |-> FALSE, status |-> Keep]
    IN  [jobs |-> <<_self_metrics>> \o ConnectivityJobs(relation, order) \o custom.jobs,
         raised |-> custom.raised, status |-> custom.status]

(***************************************************************************)
(* The peer relation: whether it exists and the databag of each remote     *)
(* unit.  A databag is empty until its unit has published; a unit          *)
(* publishes its four keys together (_update_peer_relation_data).          *)
(***************************************************************************)
NoRelation == [exists |-> FALSE, data |-> <<>>]

\* get_unit_networks() of a machine with k interfaces, as to_dict() gives them.
Networks(k) ==
    [i \in 1 .. k |-> [iface |-> "eth" \o ToString(i), ip |-> "10.0.1." \o ToString(i),
                       net |-> "10.0.1.0/24"]]

PeerData(p, k) ==
    ("principal-unit" :> ("ubuntu/" \o ToString(p))) @@
    ("principal-hostname" :> ("juju-" \o ToString(p))) @@
    ("az" :> "zone-b") @@
    ("unit-networks" :> json_dumps(Networks(k)))

Databags(p, maxIfaces) == {<<>>} \cup {PeerData(p, k) : k \in 0 .. maxIfaces}

PeerRelations(maxPeers, maxIfaces) ==
    {NoRelation} \cup
    {[exists |-> TRUE, data |-> d] :
        d \in UNION {{f \in [S -> UNION {Databags(p, maxIfaces) : p \in S}] :
                         \A p \in S : f[p] \in Databags(p, maxIfaces)} :
                     S \in SUBSET (1 .. maxPeers)}}

\* The number of interfaces a peer has published.
IfaceCount(rel_data) ==
    IF "unit-networks" \in DOMAIN rel_data THEN Len(rel_data["unit-networks"].json) ELSE 0

(***************************************************************************)
(* utils.py: get_unit_networks.  An address is the four octets of its      *)
(* dotted text, and <<>> when it is missing or empty; the host is what     *)
(* netifaces gives: the interfaces in the order of interfaces(), each with *)
(* its AF_INET list (empty when the interface has no IPv4 address).        *)
(***************************************************************************)
RECURSIVE BitAnd(_, _)
BitAnd(a, b) ==
    IF a = 0 \/ b = 0 THEN 0
    ELSE (a % 2) * (b % 2) + 2 * BitAnd(a \div 2, b \div 2)

RECURSIVE Ones(_)
Ones(a) == IF a = 0 THEN 0 ELSE (a % 2) + Ones(a \div 2)

\* str() of an IPv4Address.
Dotted(o) ==
    ToString(o[1]) \o "." \o ToString(o[2]) \o "." \o ToString(o[3]) \o "." \o ToString(o[4])

HostMask == <<255, 255, 255, 255>>

\* An interface that takes every address as a host address.
IPv4Interface_host(ip, netmask) ==
    [ip |-> ip, network |-> [network_address |-> ip, prefixlen |-> 32]]

\* IPv4Interface(f"{ip}/{netmask}"): the address and its network.
IPv4Interface(ip, netmask) ==
    [ip |-> ip,
     network |-> [network_address |-> [i \in 1 .. 4 |-> BitAnd(ip[i], netmask[i])],
                  prefixlen |-> SumSeq([i \in 1 .. 4 |-> Ones(netmask[i])])]]

\* Network.to_dict(): iface, ip and str(net).
to_dict(network) ==
    [iface |-> network.iface, ip |-> network.ip,
     net |-> Dotted(network.net.network_address) \o "/" \o ToString(network.net.prefixlen)]

\* Lines 50-72: the networks of the addresses of one interface, in order.
RECURSIVE AddrNetworks(_, _)
AddrNetworks(iface, addrs) ==
    IF addrs = <<>> THEN <<>>
    ELSE LET addr == Head(addrs)
             ip == Get(addr, "addr", <<>>)
             netmask == Get(addr, "netmask", <<>>)
         IN  (IF ip = <<>>
              THEN <<>>
              ELSE LET iface_ip == IF netmask # <<>> THEN IPv4Interface(ip, netmask)
                                   ELSE IPv4Interface(ip, HostMask)
                   IN  <<[iface |-> iface, ip |-> Dotted(iface_ip.ip), net |-> iface_ip.network]>>)
             \o AddrNetworks(iface, Tail(addrs))

\* Line 47: the interfaces get_unit_networks leaves out.
Skipped == {"lo"}

RECURSIVE get_unit_networks(_)
get_unit_networks(interfaces) ==
    IF interfaces = <<>> THEN <<>>
    ELSE (IF Head(interfaces).name \in Skipped THEN <<>>
          ELSE AddrNetworks(Head(interfaces).name, Head(interfaces).inet))
         \o get_unit_networks(Tail(interfaces))

\* The machine of the hooks of Spec: the loopback and one interface.
DefaultHost ==
    <<[name |-> "lo", inet |-> <<[addr |-> <<127, 0, 0, 1>>, netmask |-> <<255, 0, 0, 0>>]>>],
      [name |-> "eth1", inet |-> <<[addr |-> <<10, 0, 1, 1>>, netmask |-> <<255, 255, 255, 0>>]>>]>>

\* The entries of an AF_INET list in the model: two addresses with a
\* netmask, one without, and an entry without address.
Addrs ==
    {[addr |-> <<192, 168, 1, 10>>, netmask |-> <<255, 255, 255, 0>>],
     [addr |-> <<172, 16, 37, 9>>, netmask |-> <<255, 255, 240, 0>>],
     [addr |-> <<10, 0, 0, 5>>],
     [netmask |-> <<255, 255, 255, 0>>]}

AddrLists == {<<>>} \cup {<<a>> : a \in Addrs} \cup {<<a, b>> : a, b \in Addrs}

IfaceNames == {"lo", "eth0", "wlan0"}

\* The machines with at most maxIfaces interfaces.
Hosts(maxIfaces) ==
    UNION {{h \in [1 .. n -> [name : IfaceNames, inet : AddrLists]] :
               \A i, j \in 1 .. n : h[i].name = h[j].name => i = j} :
           n \in 0 .. maxIfaces}

\* The parsed probes document of the states that validate none.
NoDoc == <<>>

(***************************************************************************)
(* The state.                                                              *)
(***************************************************************************)
VARIABLES
    registry,       \* the shared registration store: records [unit, rev]
    snap,           \* the snap on the machine: [state, rev]
    configFile,     \* the content of SNAP_CONFIG_PATH, None when there is no file
    config,         \* the charm options: [config_file, probes_file]
    peers,          \* the peer relation: [exists, data]
    localPeerData,  \* the local unit's databag on the peer relation
    stored,         \* _stored.status of the local unit
    phase,          \* the local unit: "new", "running" or "gone"
    jobs,           \* SpecJobs: the scrape jobs last composed
    last,           \* what the hook that has just run did
    pc,             \* SpecConc: where each consumer is in its install or teardown
    seen,           \* SpecConc: what each consumer read from the store
    host,           \* the network interfaces of the machine, as netifaces gives them
    doc             \* SpecSchema: the parsed probes document under validation

vars == <<registry, snap, configFile, config, peers, localPeerData, stored,
          phase, jobs, last, pc, seen, host, doc>>

\* No hook has just run (the last step was the environment's).
NoEvent ==
    [unit |-> LocalUnit, event |-> "none", calls |-> <<>>, pushed |-> FALSE, ret |-> FALSE,
     raised |-> FALSE, start |-> "none", again |-> FALSE]

\* The record of a hook: the unit, the event, the calls it made in order,
\* whether _push_config ran and what it returned, whether an exception left
\* the hook, how the start of the snap ended, and whether the hook ran
\* right after another hook that ran _push_config.
Record(unit, event, calls, pushed, ret, raised, start) ==
    [unit |-> unit, event |-> event, calls |-> calls, pushed |-> pushed, ret |-> ret,
     raised |-> raised, start |-> start,
     again |-> pushed /\ last.pushed /\ ~last.raised]

\* An assignment that lands in the workload entry whatever the key.
Apply_to_snap(status, key, new) == IF new = Keep THEN status ELSE [status EXCEPT !["snap"] = new]

\* self._stored.status[key] = to_tuple(new), or no assignment at all.
Apply(status, key, new) == IF new = Keep THEN status ELSE [status EXCEPT ![key] = new]

NoSnap == [state |-> "absent", rev |-> 0]

\* The peer relations Spec's environment chooses among.
HookPeerRelations ==
    {NoRelation, [exists |-> TRUE, data |-> (1 :> PeerData(1, 1))]}

\* The hooks of a running unit, as event() names them.
RunningEvents == {"upgrade", "config-changed", "update-status", "peers-relation-joined"}

\* The probes_file values Spec's environment chooses among.
HookProbesInputs == {None, VALID_PROBES_FILE, INVALID_PROBES_FILE, SCALAR_PROBES_FILE}

Init ==
    /\ registry = {}
    /\ snap = NoSnap
    /\ configFile = None
    /\ config = [config_file |-> None, probes_file |-> None]
    /\ peers = NoRelation
    /\ localPeerData = <<>>
    /\ stored = CompositeStatus
    /\ phase = "new"
    /\ jobs = <<>>
    /\ last = NoEvent
    /\ pc = [u \in Units |-> "idle"]
    /\ seen = [u \in Units |-> FALSE]
    /\ host = DefaultHost
    /\ doc = NoDoc

\* The unit status a status query gives: collect-status runs at the end of
\* every hook that observes it.
unit_status == _collect_unit_status(stored, snap.state)

(***************************************************************************)
(* One hook of the local unit, from __init__ to the commit of StoredState. *)
(***************************************************************************)
\* _update_peer_relation_data: the databag after the update.
_update_peer_relation_data(relation, data) ==
    IF ~relation.exists THEN data
    ELSE ("principal-unit" :> principal_unit) @@
         ("principal-hostname" :> PRINCIPAL_HOSTNAME) @@
         ("unit-networks" :> json_dumps([i \in DOMAIN get_unit_networks(host) |->
                                            to_dict(get_unit_networks(host)[i])])) @@
         ("az" :> availability_zone) @@ data

\* Lines 96-97: the events on which __init__ installs.
InstallEvents == {"install", "upgrade"}

\* A reconcile that restarts the snap whatever _push_config returned.
_reconcile_always_restart(event, snapNow, status, startCalls, restartOutcome) ==
    LET pushed == _push_config(config.config_file, configFile)
        restarted == _restart_snap(snapNow, restartOutcome)
        publish == event = "peers-relation-joined" /\ ~restarted.raised
    IN  [snap |-> restarted.snap,
         status |-> Apply(status, "config", pushed.status),
         file |-> IF pushed.write = NoWrite THEN configFile ELSE pushed.write,
         peerData |-> IF publish THEN _update_peer_relation_data(peers, localPeerData)
                      ELSE localPeerData,
         ret |-> pushed.ret,
         raised |-> restarted.raised,
         calls |-> startCalls \o <<"_push_config">>
                   \o (IF pushed.status = Keep THEN <<>> ELSE <<"set_config_status">>)
                   \o (IF pushed.write = NoWrite THEN <<>> ELSE <<"write_text">>)
                   \o <<"restart">>
                   \o (IF publish /\ peers.exists THEN <<"update_peer_data">> ELSE <<>>)]

\* _reconcile: the config push, the restart it asks for, the peer data.
_reconcile(event, snapNow, status, startCalls, restartOutcome) ==
    LET pushed == _push_config(config.config_file, configFile)
        restarted == IF pushed.ret THEN _restart_snap(snapNow, restartOutcome)
                     ELSE [snap |-> snapNow, raised |-> FALSE]
        publish == event = "peers-relation-joined" /\ ~restarted.raised
    IN  [snap |-> restarted.snap,
         status |-> Apply(status, "config", pushed.status),
         file |-> IF pushed.write = NoWrite THEN configFile ELSE pushed.write,
         peerData |-> IF publish THEN _update_peer_relation_data(peers, localPeerData)
                      ELSE localPeerData,
         ret |-> pushed.ret,
         raised |-> restarted.raised,
         calls |-> startCalls \o <<"_push_config">>
                   \o (IF pushed.status = Keep THEN <<>> ELSE <<"set_config_status">>)
                   \o (IF pushed.write = NoWrite THEN <<>> ELSE <<"write_text">>)
                   \o (IF pushed.ret THEN <<"restart">> ELSE <<>>)
                   \o (IF publish /\ peers.exists THEN <<"update_peer_data">> ELSE <<>>)]

Hook(event, startOutcome, restartOutcome, order) ==
    \E inst \in {IF event \in InstallEvents
                 THEN _install_snaps(LocalUnit, Revision(LocalUnit), registry, snap, startOutcome)
                 ELSE [registry |-> registry, snap |-> snap, status |-> Keep,
                       raised |-> FALSE, start |-> "none", calls |-> <<>>]} :
    \E composed \in {_all_scrape_jobs(peers, order, config.probes_file)} :
    \E rec \in {_reconcile(event, inst.snap,
                           Apply(Apply(stored, "snap", inst.status), "probes_file", composed.status),
                           inst.calls, restartOutcome)} :
        /\ registry' = inst.registry
        /\ UNCHANGED <<host, doc, config, peers, jobs, pc, seen>>
        /\ IF inst.raised \/ composed.raised
           THEN \* __init__ raises: nothing is observed, StoredState is not committed.
                /\ snap' = inst.snap
                /\ UNCHANGED <<configFile, localPeerData, stored, phase>>
                /\ last' = Record(LocalUnit, event, inst.calls, FALSE, FALSE, TRUE, inst.start)
           ELSE /\ snap' = rec.snap
                /\ configFile' = rec.file
                /\ localPeerData' = rec.peerData
                /\ stored' = IF rec.raised THEN stored ELSE rec.status
                /\ phase' = IF rec.raised THEN phase ELSE "running"
                /\ last' = Record(LocalUnit, event, rec.calls, TRUE, rec.ret, rec.raised,
                                   inst.start)

\* The outcomes of the start to try: no start is made outside _install_snaps.
StartOutcomes(event) == IF event \in InstallEvents THEN SnapOutcomes ELSE {"ok"}

\* The order of relation.units: Spec's relations have at most one unit.
HookOrder == CHOOSE order \in Perms(DOMAIN peers.data) : TRUE

\* The install hook, the first hook of a unit.
HookInstall ==
    /\ phase = "new"
    /\ \E startOutcome \in SnapOutcomes, restartOutcome \in SnapOutcomes :
           Hook("install", startOutcome, restartOutcome, HookOrder)

\* Any later hook but remove.
HookRunning ==
    /\ phase = "running"
    /\ \E event \in RunningEvents :
          /\ event = "peers-relation-joined" => (peers.exists /\ DOMAIN peers.data # {})
          /\ \E startOutcome \in StartOutcomes(event), restartOutcome \in SnapOutcomes :
                 Hook(event, startOutcome, restartOutcome, HookOrder)

\* A remove hook that goes on to push the config after the teardown.
HookRemove_reconciles ==
    /\ phase = "running"
    /\ \E outcome \in SnapOutcomes :
          LET down == _remove_blackbox_exporter(LocalUnit, Revision(LocalUnit), registry, snap, outcome)
              pushed == _push_config(config.config_file, configFile)
          IN  /\ registry' = down.registry
              /\ snap' = down.snap
              /\ phase' = IF down.raised THEN phase ELSE "gone"
              /\ configFile' = IF pushed.write = NoWrite THEN configFile ELSE pushed.write
              /\ stored' = Apply(stored, "config", pushed.status)
              /\ last' = Record(LocalUnit, "remove", down.calls, FALSE, FALSE, down.raised,
                                 "none")
              /\ UNCHANGED <<host, doc, config, peers, localPeerData, jobs, pc, seen>>

\* The remove hook: __init__ returns after the teardown.
HookRemove ==
    /\ phase = "running"
    /\ \E outcome \in SnapOutcomes :
          LET down == _remove_blackbox_exporter(LocalUnit, Revision(LocalUnit), registry, snap, outcome)
          IN  /\ registry' = down.registry
              /\ snap' = down.snap
              /\ phase' = IF down.raised THEN phase ELSE "gone"
              /\ last' = Record(LocalUnit, "remove", down.calls, FALSE, FALSE, down.raised,
                                 "none")
              /\ UNCHANGED <<host, doc, configFile, config, peers, localPeerData, stored, jobs, pc, seen>>

(***************************************************************************)
(* The co-located siblings: the install and the teardown of their hooks,   *)
(* on the shared store and the shared snap.                                *)
(***************************************************************************)
SiblingInstall(s) ==
    /\ ~\E r \in registry : r.unit = s
    /\ \E outcome \in SnapOutcomes :
          LET inst == _install_snaps(s, Revision(s), registry, snap, outcome)
          IN  /\ registry' = inst.registry
              /\ snap' = inst.snap
              /\ last' = Record(s, "install", inst.calls, FALSE, FALSE, inst.raised, inst.start)
    /\ UNCHANGED <<host, doc, configFile, config, peers, localPeerData, stored, phase, jobs,
                   pc, seen>>

SiblingRemove(s) ==
    /\ \E r \in registry : r.unit = s
    /\ \E outcome \in SnapOutcomes :
          LET down == _remove_blackbox_exporter(s, Revision(s), registry, snap, outcome)
          IN  /\ registry' = down.registry
              /\ snap' = down.snap
              /\ last' = Record(s, "remove", down.calls, FALSE, FALSE, down.raised, "none")
    /\ UNCHANGED <<host, doc, configFile, config, peers, localPeerData, stored, phase, jobs,
                   pc, seen>>

(***************************************************************************)
(* The environment.                                                        *)
(***************************************************************************)
\* The operator sets a charm option.
JujuConfig ==
    /\ phase # "gone"
    /\ \/ \E c \in ConfigInputs : config' = [config EXCEPT !.config_file = c]
       \/ \E p \in HookProbesInputs : config' = [config EXCEPT !.probes_file = p]
    /\ config' # config
    /\ last' = NoEvent
    /\ UNCHANGED <<host, doc, registry, snap, configFile, peers, localPeerData, stored, phase,
                   jobs, pc, seen>>

\* The service of the snap stops.
ServiceStops ==
    /\ snap.state = "active"
    /\ snap' = [snap EXCEPT !.state = "inactive"]
    /\ last' = NoEvent
    /\ UNCHANGED <<host, doc, registry, configFile, config, peers, localPeerData, stored, phase,
                   jobs, pc, seen>>

\* The peer relation is created or removed, or a peer joins or publishes.
PeersChange ==
    /\ phase # "gone"
    /\ \E r \in HookPeerRelations :
          /\ r # peers
          /\ peers' = r
          /\ localPeerData' = IF r.exists THEN localPeerData ELSE <<>>
    /\ last' = NoEvent
    /\ UNCHANGED <<host, doc, registry, snap, configFile, config, stored, phase, jobs,
                   pc, seen>>

Next ==
    \/ HookInstall
    \/ HookRunning
    \/ HookRemove
    \/ \E s \in Siblings : SiblingInstall(s)
    \/ \E s \in Siblings : SiblingRemove(s)
    \/ JujuConfig
    \/ ServiceStops
    \/ PeersChange

Spec == Init /\ [][Next]_vars

(***************************************************************************)
(* SpecJobs: the scrape job composition (the _all_scrape_jobs property     *)
(* that __init__ reads in every hook but remove), on every peer relation   *)
(* and probes_file of the bounds.                                          *)
(***************************************************************************)
InitJobs ==
    /\ registry = {}
    /\ snap = [state |-> "active", rev |-> Revision(LocalUnit)]
    /\ configFile = None
    /\ \E p \in ProbesInputs : config = [config_file |-> None, probes_file |-> p]
    /\ peers \in PeerRelations(MaxPeers, MaxIfaces)
    /\ localPeerData = <<>>
    /\ stored = CompositeStatus
    /\ phase = "running"
    /\ jobs = <<>>
    /\ last = NoEvent
    /\ pc = [u \in Units |-> "idle"]
    /\ seen = [u \in Units |-> FALSE]
    /\ host = DefaultHost
    /\ doc = NoDoc

\* A read that keeps the custom jobs of the read before and sanitizes them
\* again, as if the parsed probes file were cached.
Compose_cached ==
    /\ \E order \in Perms(DOMAIN peers.data) :
       \E composed \in {_all_scrape_jobs(peers, order, config.probes_file)} :
       \E before \in {IF peers.exists THEN 2 ELSE 1} :
          /\ jobs' = IF composed.raised THEN jobs
                     ELSE IF Len(jobs) > before
                     THEN SubSeq(composed.jobs, 1, before)
                          \o [i \in 1 .. (Len(jobs) - before) |-> Sanitized(jobs[before + i])]
                     ELSE composed.jobs
          /\ stored' = Apply(stored, "probes_file", composed.status)
          /\ last' = Record(LocalUnit, "compose", <<"_all_scrape_jobs">>, FALSE, FALSE,
                             composed.raised, "none")
    /\ UNCHANGED <<host, doc, registry, snap, configFile, config, peers, localPeerData, phase, pc, seen>>

\* One read of the property; relation.units is a set, iterated in some order.
Compose ==
    /\ \E order \in Perms(DOMAIN peers.data) :
       \E composed \in {_all_scrape_jobs(peers, order, config.probes_file)} :
          /\ jobs' = IF composed.raised THEN jobs ELSE composed.jobs
          /\ stored' = Apply(stored, "probes_file", composed.status)
          /\ last' = Record(LocalUnit, "compose", <<"_all_scrape_jobs">>, FALSE, FALSE,
                             composed.raised, "none")
    /\ UNCHANGED <<host, doc, registry, snap, configFile, config, peers, localPeerData, phase, pc, seen>>

NextJobs == Compose

SpecJobs == InitJobs /\ [][NextJobs]_vars

(***************************************************************************)
(* SpecConc: the consumers of one machine run _install_snaps and           *)
(* _remove_blackbox_exporter as independent processes; a step is one call  *)
(* on the shared store or on the snap.                                     *)
(***************************************************************************)
InitConc ==
    /\ registry = {}
    /\ snap = NoSnap
    /\ configFile = None
    /\ config = [config_file |-> None, probes_file |-> None]
    /\ peers = NoRelation
    /\ localPeerData = <<>>
    /\ stored = CompositeStatus
    /\ phase = "new"
    /\ jobs = <<>>
    /\ last = NoEvent
    /\ pc = [u \in Units |-> "idle"]
    /\ seen = [u \in Units |-> FALSE]
    /\ host = DefaultHost
    /\ doc = NoDoc

Step(u, call) == Record(u, "step", <<call>>, FALSE, FALSE, FALSE, "none")

ConcFrame == UNCHANGED <<host, doc, configFile, config, peers, localPeerData, stored, phase, jobs>>

\* Line 203: manager.register(snap_name, snap_revision).
Register(u) ==
    /\ pc[u] = "idle"
    /\ registry' = register(registry, u, Revision(u))
    /\ pc' = [pc EXCEPT ![u] = "registered"]
    /\ last' = Step(u, "register")
    /\ UNCHANGED <<snap, seen>>
    /\ ConcFrame

\* Lines 204-205: manager.get_revisions(snap_name) and the comparison.
ReadRevisions(u) ==
    /\ pc[u] = "registered"
    /\ seen' = [seen EXCEPT ![u] = ShouldInstall(Revision(u), get_revisions(registry))]
    /\ pc' = [pc EXCEPT ![u] = IF seen'[u] THEN "install" ELSE "running"]
    /\ last' = Step(u, "get_revisions")
    /\ UNCHANGED <<registry, snap>>
    /\ ConcFrame

\* Line 210: install_snap(snap_name).
InstallStep(u) ==
    /\ pc[u] = "install"
    /\ snap' = install_snap(snap, Revision(u))
    /\ pc' = [pc EXCEPT ![u] = "start"]
    /\ last' = Step(u, "install_snap")
    /\ UNCHANGED <<registry, seen>>
    /\ ConcFrame

\* Lines 214-219: the start.
StartStep(u) ==
    /\ pc[u] = "start"
    /\ \E outcome \in SnapOutcomes : snap' = StartSnap(snap, outcome).snap
    /\ pc' = [pc EXCEPT ![u] = "running"]
    /\ last' = Step(u, "start")
    /\ UNCHANGED <<registry, seen>>
    /\ ConcFrame

\* Line 234: manager.unregister(SNAP_NAME, snap_revision).
Unregister(u) ==
    /\ pc[u] = "running"
    /\ registry' = unregister(registry, u, Revision(u))
    /\ pc' = [pc EXCEPT ![u] = "unregistered"]
    /\ last' = Step(u, "unregister")
    /\ UNCHANGED <<snap, seen>>
    /\ ConcFrame

\* Line 236: manager.is_used_by_other_units(SNAP_NAME).
CheckUsed(u) ==
    /\ pc[u] = "unregistered"
    /\ seen' = [seen EXCEPT ![u] = is_used_by_other_units(registry, u)]
    /\ pc' = [pc EXCEPT ![u] = "teardown"]
    /\ last' = Step(u, "is_used_by_other_units")
    /\ UNCHANGED <<registry, snap>>
    /\ ConcFrame

\* Lines 237-243: the restart or the removal that was decided.
TeardownStep(u) ==
    /\ pc[u] = "teardown"
    /\ \E outcome \in SnapOutcomes :
          snap' = IF TeardownCall(seen[u]) = "restart" THEN _restart_snap(snap, outcome).snap
                  ELSE _remove_snap(snap, outcome).snap
    /\ pc' = [pc EXCEPT ![u] = "gone"]
    /\ last' = Step(u, TeardownCall(seen[u]))
    /\ UNCHANGED <<registry, seen>>
    /\ ConcFrame

NextConc ==
    \E u \in Units :
        \/ Register(u)
        \/ ReadRevisions(u)
        \/ InstallStep(u)
        \/ StartStep(u)
        \/ Unregister(u)
        \/ CheckUsed(u)
        \/ TeardownStep(u)

SpecConc == InitConc /\ [][NextConc]_vars

(***************************************************************************)
(* The properties.                                                         *)
(***************************************************************************)
\* The config_file values that are valid YAML with a `modules` mapping, and
\* those that are malformed YAML or carry no `modules` mapping.
ValidConfigs == {VALID_CONFIG, VALID_YAML_WITH_BAD_MODULES}
InvalidConfigs ==
    {INVALID_YAML_CONFIG, NO_MODULES_CONFIG, MODULES_NOT_MAPPING_CONFIG, SCALAR_CONFIG}

\* The hook that has just run made the call c.
Called(rec, c) == \E i \in DOMAIN rec.calls : rec.calls[i] = c

\* The hook that has just run is one of the local unit in which
\* _push_config ran.
LocalPush == last.unit = LocalUnit /\ last.pushed

\* C1: after every hook in which _push_config ran on a valid config_file
\* with a `modules` mapping, the config file holds that content and the
\* configuration status entry is active (so that the unit status is active
\* when the workload and the probes are fine).
C1_ValidConfigActive ==
    (LocalPush /\ config.config_file \in ValidConfigs)
        => (configFile = config.config_file /\ stored.config = ActiveStatus)

\* C2: in a hook whose config_file is malformed YAML or lacks a `modules`
\* mapping, _push_config returns False, the config file is left as it was,
\* the configuration status entry becomes blocked, and nothing is restarted.
C2_InvalidConfigRejected ==
    [][(last'.pushed /\ config.config_file \in InvalidConfigs)
          => /\ ~last'.ret
             /\ configFile' = configFile
             /\ ~Called(last', "write_text")
             /\ ~Called(last', "restart")
             /\ stored'.config[1] = "blocked"]_vars

\* A hook has rejected a config_file without `modules` and has left the
\* valid content of the file in place.
C2_Witness ==
    /\ LocalPush
    /\ config.config_file = NO_MODULES_CONFIG
    /\ configFile = VALID_CONFIG
    /\ stored.config = ConfigInvalid
    /\ ~last.ret

\* C3: a hook that runs right after another hook that ran _push_config,
\* with the same options and nothing else writing the file in between,
\* gets False from _push_config, writes no file and restarts nothing.
C3_SecondRunUnchanged ==
    [][last'.again
          => /\ ~last'.ret
             /\ configFile' = configFile
             /\ ~Called(last', "write_text")
             /\ ~Called(last', "restart")]_vars

\* A second hook in a row has found the valid content it was given in place.
C3_Witness ==
    /\ last.again
    /\ config.config_file = VALID_CONFIG
    /\ configFile = VALID_CONFIG
    /\ ~last.ret
    /\ ~Called(last, "restart")

\* C4 as stated: whenever config_file is unset or equals the content of the
\* file, _push_config returns False, the file is not rewritten and nothing
\* is restarted, whatever the file holds.
C4_UnsetAlwaysUnchanged ==
    [][(last'.pushed /\ (config.config_file = None \/ config.config_file = configFile))
          => /\ ~last'.ret
             /\ configFile' = configFile
             /\ ~Called(last', "restart")]_vars

\* C4: _push_config returns False without writing, restarting or touching
\* the configuration status entry when config_file equals the content of
\* the file (an unset option with no file included), or when config_file is
\* unset or empty and the file holds the default configuration; an unset or
\* empty config_file over any other content of the file has the default
\* configuration written and the snap restarted.
C4_ShortCircuit ==
    [][/\ (last'.pushed /\ (\/ config.config_file = configFile
                            \/ (config.config_file \in {None, ""}
                                /\ configFile = DEFAULT_CONFIG_FILE)))
          => /\ ~last'.ret
             /\ configFile' = configFile
             /\ stored'.config = stored.config
             /\ ~Called(last', "write_text")
             /\ ~Called(last', "restart")
       /\ (last'.pushed /\ config.config_file \in {None, ""}
           /\ configFile \notin {config.config_file, DEFAULT_CONFIG_FILE})
          => /\ last'.ret
             /\ configFile' = DEFAULT_CONFIG_FILE
             /\ Called(last', "restart")]_vars

\* A hook with config_file unset has found the default configuration in
\* place and has left it there.
C4_Witness ==
    /\ LocalPush
    /\ config.config_file = None
    /\ configFile = DEFAULT_CONFIG_FILE
    /\ ~last.ret
    /\ ~Called(last, "write_text")

\* C5: a remove hook unregisters its unit first; when another unit is still
\* registered it restarts the snap and does not remove it; when none is, it
\* removes the snap; and no failure of the restart or of the removal leaves
\* the hook.
C5_Teardown ==
    last.event = "remove"
        => /\ last.calls[1] = "unregister"
           /\ \A r \in registry : r.unit # last.unit
           /\ registry # {} => (Called(last, "restart") /\ ~Called(last, "remove"))
           /\ registry = {} => Called(last, "remove")
           /\ ~last.raised

\* A unit has left while another one is registered, and has restarted the
\* snap.
C5_Witness ==
    /\ last.event = "remove"
    /\ registry # {}
    /\ Called(last, "restart")
    /\ snap.state # "absent"

\* C6: whatever the interleaving of the install and teardown steps of the
\* units of one machine, the snap is removed only when no unit is registered
\* for it.
C6_RemovedOnlyByLast ==
    (last.event = "step" /\ last.calls = <<"remove">>) => registry = {}

C8_StartFailureSurfaced ==
    (last.event \in InstallEvents /\ last.unit = LocalUnit /\ last.start = "SnapError")
        => (last.raised \/ stored.snap[1] \in {"blocked", "error"})

\* The peer relation has no unit that has published an interface.
C9_ZeroPeers ==
    \/ ~peers.exists
    \/ \A p \in DOMAIN peers.data : peers.data[p] = <<>>

\* C9: with no peers and no probes file, the jobs composed are the
\* self-monitoring job alone, whether the peer relation is missing or is
\* there without units or without data.
C9_ZeroPeersOneJob ==
    (last.event = "compose" /\ ~last.raised /\ Falsy(config.probes_file) /\ C9_ZeroPeers)
        => (Len(jobs) = 1 /\ jobs[1].job_name = "be-self-monitoring")

\* The number of interfaces the peers have published, all together.
C10_TotalIfaces ==
    LET order == CHOOSE o \in Perms(DOMAIN peers.data) : TRUE
    IN  SumSeq([i \in 1 .. Len(order) |-> IfaceCount(peers.data[order[i]])])

\* C10: the connectivity job has as many static_configs as the peers have
\* published interfaces, each with exactly one target, and one for each
\* interface of each peer with the address of that interface; a peer without
\* `unit-networks` adds none and is no error.
C10_OnePerInterface ==
    (last.event = "compose" /\ ~last.raised /\ peers.exists)
        => LET static_configs == jobs[2].static_configs
           IN  /\ jobs[2].metrics_path = "/probe"
               /\ Len(static_configs) = C10_TotalIfaces
               /\ \A i \in DOMAIN static_configs : Len(static_configs[i].targets) = 1
               /\ \A p \in DOMAIN peers.data :
                     \A n \in 1 .. IfaceCount(peers.data[p]) :
                        \E i \in DOMAIN static_configs :
                           /\ static_configs[i].targets
                                  = <<peers.data[p]["unit-networks"].json[n].ip>>
                           /\ static_configs[i].labels.interface
                                  = peers.data[p]["unit-networks"].json[n].iface
                           /\ static_configs[i].labels.destination
                                  = peers.data[p]["principal-unit"]

\* Two peers, one with one interface and one with two, and a peer that has
\* published nothing yet: three static_configs.
C10_Witness ==
    /\ last.event = "compose"
    /\ ~last.raised
    /\ peers.exists
    /\ \E p, q \in DOMAIN peers.data :
          /\ IfaceCount(peers.data[p]) = 1
          /\ IfaceCount(peers.data[q]) = 2
    /\ Len(jobs[2].static_configs) = 3

\* The jobs have just been composed.
Composing == last.event = "compose"

\* The number of jobs before the custom ones.
BeforeCustom == IF peers.exists THEN 2 ELSE 1

\* The job names a probes_file text gives, in its order; none when the text
\* is not a valid probes file.
C11_JobNames(text) ==
    CASE text = VALID_PROBES_FILE -> <<"check-charmhub-connectivity">>
      [] text = LABELLED_PROBES_FILE -> <<"first", "second">>
      [] OTHER -> <<>>

\* C11: the composed list has the self-monitoring job first, then the
\* connectivity job when there is one, then the custom jobs in the order of
\* the probes file; there are custom jobs only when probes_file is set and
\* not empty.
C11_Ordered ==
    (Composing /\ ~last.raised)
        => LET names == C11_JobNames(config.probes_file)
           IN  /\ jobs[1].job_name = "be-self-monitoring"
               /\ peers.exists
                     => jobs[2].job_name = PRINCIPAL_HOSTNAME \o "-connectivity-checks"
               /\ Len(jobs) = BeforeCustom + Len(names)
               /\ \A i \in DOMAIN names :
                     jobs[BeforeCustom + i].job_name = PRINCIPAL_HOSTNAME \o "-" \o names[i]
               /\ Falsy(config.probes_file) => Len(jobs) = BeforeCustom

\* The three kinds of job at once: four jobs, the two custom ones last.
C11_Witness ==
    /\ Composing
    /\ peers.exists
    /\ config.probes_file = LABELLED_PROBES_FILE
    /\ Len(jobs) = 4
    /\ jobs[4].job_name = PRINCIPAL_HOSTNAME \o "-second"

\* C12: for a valid probes file every custom job is there under the name
\* <hostname>-X, each of its static_configs carries source and
\* source_hostname of this unit, whatever the file gave for these two keys,
\* the other labels and the targets of the file are kept, and the probes
\* status entry is active.
C12_CustomJobsLabelled ==
    (Composing /\ config.probes_file \in {VALID_PROBES_FILE, LABELLED_PROBES_FILE})
        => LET original == probes_safe_load(config.probes_file).value.map.scrape_configs
           IN  /\ ~last.raised
               /\ stored.probes_file = ActiveStatus
               /\ Len(jobs) = BeforeCustom + Len(original)
               /\ \A i \in DOMAIN original :
                     LET job == jobs[BeforeCustom + i]
                     IN  /\ job.job_name = PRINCIPAL_HOSTNAME \o "-" \o original[i].job_name
                         /\ Len(job.static_configs) = Len(original[i].static_configs)
                         /\ \A j \in DOMAIN original[i].static_configs :
                               LET labels == job.static_configs[j].labels
                                   given == IF "labels" \in DOMAIN original[i].static_configs[j]
                                            THEN original[i].static_configs[j].labels
                                            ELSE <<>>
                               IN  /\ labels.source = principal_unit
                                   /\ labels.source_hostname = PRINCIPAL_HOSTNAME
                                   /\ \A k \in DOMAIN given \ {"source", "source_hostname"} :
                                         k \in DOMAIN labels /\ labels[k] = given[k]
                                   /\ job.static_configs[j].targets
                                          = original[i].static_configs[j].targets

\* A static config whose file gave its own source and a label team: the
\* source is this unit's, the team is kept.
C12_Witness ==
    /\ Composing
    /\ config.probes_file = LABELLED_PROBES_FILE
    /\ LET labels == jobs[BeforeCustom + 2].static_configs[1].labels
       IN  labels.source = principal_unit /\ labels.team = "net"

\* C13: for a probes file with an entry that breaks the schema, alone or
\* next to valid entries, no custom job is composed, the self-monitoring
\* and connectivity jobs are, the probes status entry is blocked and so is
\* the unit status.
C13_AllOrNothing ==
    (Composing /\ config.probes_file \in {INVALID_PROBES_FILE, PARTLY_INVALID_PROBES_FILE})
        => /\ ~last.raised
           /\ Len(jobs) = BeforeCustom
           /\ jobs[1].job_name = "be-self-monitoring"
           /\ peers.exists
                 => jobs[2].job_name = PRINCIPAL_HOSTNAME \o "-connectivity-checks"
           /\ stored.probes_file[1] = "blocked"
           /\ unit_status[1] = "blocked"

\* A file with a valid entry and an invalid one, with a peer relation: two
\* jobs, and the unit blocked.
C13_Witness ==
    /\ Composing
    /\ config.probes_file = PARTLY_INVALID_PROBES_FILE
    /\ peers.exists
    /\ Len(jobs) = 2
    /\ unit_status = BlockedStatus("Invalid probes file; see debug-log")

\* C16: for a probes_file that is malformed YAML, or YAML that gives a
\* scalar, a list or null, the composition ends without an exception, with
\* no custom job and with the probes status entry blocked.
C16_UnparseableRecovered ==
    (Composing /\ config.probes_file \in {MALFORMED_PROBES_FILE, SCALAR_PROBES_FILE,
                                          LIST_PROBES_FILE, NULL_PROBES_FILE})
        => /\ ~last.raised
           /\ Len(jobs) = BeforeCustom
           /\ stored.probes_file[1] = "blocked"

(***************************************************************************)
(* SpecNet: get_unit_networks on the machines of Hosts, its result         *)
(* published to the peer relation.                                         *)
(***************************************************************************)
InitNet ==
    /\ registry = {}
    /\ snap = [state |-> "active", rev |-> Revision(LocalUnit)]
    /\ configFile = None
    /\ config = [config_file |-> None, probes_file |-> None]
    /\ peers = [exists |-> TRUE, data |-> <<>>]
    /\ localPeerData = <<>>
    /\ stored = CompositeStatus
    /\ phase = "running"
    /\ jobs = <<>>
    /\ last = NoEvent
    /\ pc = [u \in Units |-> "idle"]
    /\ seen = [u \in Units |-> FALSE]
    /\ host \in Hosts(MaxIfaces)
    /\ doc = NoDoc

PublishNetworks ==
    /\ localPeerData' = _update_peer_relation_data(peers, localPeerData)
    /\ last' = Record(LocalUnit, "peers-relation-joined", <<"update_peer_data">>, FALSE, FALSE,
                      FALSE, "none")
    /\ UNCHANGED <<registry, snap, configFile, config, peers, stored, phase, jobs, pc, seen,
                   host, doc>>

NextNet == PublishNetworks

SpecNet == InitNet /\ [][NextNet]_vars

\* The (interface, address) pairs of the machine that are not of the
\* loopback and hold an address, and the place of each in the enumeration.
C19_Pairs ==
    {p \in (DOMAIN host) \X {1, 2} :
        /\ host[p[1]].name # "lo"
        /\ p[2] \in DOMAIN host[p[1]].inet
        /\ "addr" \in DOMAIN host[p[1]].inet[p[2]]}
C19_Place(p) ==
    1 + Cardinality({q \in C19_Pairs : q[1] < p[1] \/ (q[1] = p[1] /\ q[2] < p[2])})

\* The address and the network of an entry, as texts.
C19_Ip(a) ==
    CASE a.addr = <<192, 168, 1, 10>> -> "192.168.1.10"
      [] a.addr = <<172, 16, 37, 9>> -> "172.16.37.9"
      [] a.addr = <<10, 0, 0, 5>> -> "10.0.0.5"
C19_Net(a) ==
    CASE a.addr = <<192, 168, 1, 10>> -> "192.168.1.0/24"
      [] a.addr = <<172, 16, 37, 9>> -> "172.16.32.0/20"
      [] a.addr = <<10, 0, 0, 5>> -> "10.0.0.5/32"

\* C19: get_unit_networks gives one entry for each address of each
\* interface other than lo, in the order of enumeration, with the network
\* the netmask gives, or the /32 of the address when there is no netmask;
\* lo is never in the result, and a machine without addresses gives the
\* empty list.
C19_OnePerAddress ==
    last.event = "peers-relation-joined"
        => LET networks == localPeerData["unit-networks"].json
           IN  /\ Len(networks) = Cardinality(C19_Pairs)
               /\ \A i \in DOMAIN networks : networks[i].iface # "lo"
               /\ \A p \in C19_Pairs :
                     networks[C19_Place(p)]
                         = [iface |-> host[p[1]].name,
                            ip |-> C19_Ip(host[p[1]].inet[p[2]]),
                            net |-> C19_Net(host[p[1]].inet[p[2]])]

\* A machine with lo and an interface that has an address with a netmask
\* off the octet boundary and one without netmask: two entries.
C19_Witness ==
    /\ last.event = "peers-relation-joined"
    /\ \E i \in DOMAIN host : host[i].name = "lo" /\ host[i].inet # <<>>
    /\ Len(localPeerData["unit-networks"].json) = 2
    /\ localPeerData["unit-networks"].json[1].net = "172.16.32.0/20"
    /\ localPeerData["unit-networks"].json[2].net = "10.0.0.5/32"

(***************************************************************************)
(* SpecSchema: _custom_scrape_jobs on parsed probes documents built from   *)
(* the values each key of an entry can take, a missing key included.       *)
(***************************************************************************)
\* The mappings with the key and one of the values, and the one without.
Optional(key, values) == {<<>>} \cup {key :> v : v \in values}

VALID_STATIC_CONFIG == [targets |-> <<"10.1.1.1">>]

ProbeEntries ==
    {name @@ path @@ params @@ static :
        name \in Optional("job_name", {"", " ", "X"}),
        path \in Optional("metrics_path", {"/probe", "/metrics"}),
        params \in Optional("params", {[module |-> <<"icmp">>], [module |-> <<>>], <<>>}),
        static \in Optional("static_configs",
                            {<<>>, <<VALID_STATIC_CONFIG>>, <<[targets |-> <<>>]>>,
                             <<[labels |-> [team |-> "net"]]>>,
                             <<VALID_STATIC_CONFIG, [targets |-> <<>>]>>})}

VALID_PROBE_ENTRY ==
    [job_name |-> "valid", metrics_path |-> "/probe", params |-> [module |-> <<"icmp">>],
     static_configs |-> <<VALID_STATIC_CONFIG>>]

\* The documents: without scrape_configs, with none, one or two entries,
\* one of the two being valid.
ProbeDocuments ==
    {<<>>, [scrape_configs |-> <<>>]}
        \cup {[scrape_configs |-> <<e>>] : e \in ProbeEntries}
        \cup {[scrape_configs |-> <<VALID_PROBE_ENTRY, e>>] : e \in ProbeEntries}
        \cup {[scrape_configs |-> <<e, VALID_PROBE_ENTRY>>] : e \in ProbeEntries}

InitSchema ==
    /\ registry = {}
    /\ snap = [state |-> "active", rev |-> Revision(LocalUnit)]
    /\ configFile = None
    /\ config = [config_file |-> None, probes_file |-> None]
    /\ peers = NoRelation
    /\ localPeerData = <<>>
    /\ stored = CompositeStatus
    /\ phase = "running"
    /\ jobs = <<>>
    /\ last = NoEvent
    /\ pc = [u \in Units |-> "idle"]
    /\ seen = [u \in Units |-> FALSE]
    /\ host = DefaultHost
    /\ doc \in ProbeDocuments

\* Lines 361-386 on the document.
ValidateProbes ==
    /\ \E custom \in {CustomJobs(Loaded(YMap(doc)))} :
          /\ jobs' = custom.jobs
          /\ stored' = Apply(stored, "probes_file", custom.status)
          /\ last' = Record(LocalUnit, "validate", <<"ProbesFile">>, FALSE, FALSE,
                            custom.raised, "none")
    /\ UNCHANGED <<registry, snap, configFile, config, peers, localPeerData, phase, pc, seen,
                   host, doc>>

NextSchema == ValidateProbes

SpecSchema == InitSchema /\ [][NextSchema]_vars

\* An entry with one of the faults of C14.
C14_Faulty(entry) ==
    \/ "job_name" \in DOMAIN entry /\ entry["job_name"] \in {"", " "}
    \/ "metrics_path" \in DOMAIN entry /\ entry["metrics_path"] # "/probe"
    \/ "static_configs" \notin DOMAIN entry
    \/ entry["static_configs"] = <<>>
    \/ \E j \in DOMAIN entry["static_configs"] :
          \/ "targets" \notin DOMAIN entry["static_configs"][j]
          \/ entry["static_configs"][j]["targets"] = <<>>

\* C14: a document without scrape_configs or with an empty one, or with an
\* entry whose job_name is empty once stripped, whose metrics_path is not
\* /probe, whose static_configs is missing or empty, or one of whose
\* static_configs has no targets or an empty list of them, is rejected: the
\* probes status entry is blocked and no custom job comes back.
C14_SchemaRejects ==
    (/\ last.event = "validate"
     /\ \/ "scrape_configs" \notin DOMAIN doc
        \/ doc["scrape_configs"] = <<>>
        \/ \E i \in DOMAIN doc["scrape_configs"] : C14_Faulty(doc["scrape_configs"][i]))
        => /\ ~last.raised
           /\ stored.probes_file = BlockedStatus("Invalid probes file; see debug-log")
           /\ jobs = <<>>

\* A document with a valid entry and one whose second static config has an
\* empty list of targets has been rejected.
C14_Witness ==
    /\ last.event = "validate"
    /\ doc = [scrape_configs |->
                 <<VALID_PROBE_ENTRY,
                   [job_name |-> "X", metrics_path |-> "/probe",
                    params |-> [module |-> <<"icmp">>],
                    static_configs |-> <<VALID_STATIC_CONFIG, [targets |-> <<>>]>>]>>]
    /\ stored.probes_file[1] = "blocked"
    /\ jobs = <<>>

\* C15: a document with an entry whose params has no `module` key, or has
\* the empty list under it, is rejected: the probes status entry is blocked
\* and no custom job comes back.
C15_ModuleRequired ==
    (/\ last.event = "validate"
     /\ "scrape_configs" \in DOMAIN doc
     /\ \E i \in DOMAIN doc["scrape_configs"] :
           /\ "params" \in DOMAIN doc["scrape_configs"][i]
           /\ \/ "module" \notin DOMAIN doc["scrape_configs"][i]["params"]
              \/ doc["scrape_configs"][i]["params"]["module"] = <<>>)
        => (stored.probes_file[1] = "blocked" /\ jobs = <<>>)

(***************************************************************************)
(* SpecStatus: the collect-status handler on every content of              *)
(* _stored.status and every state of the snap.                             *)
(***************************************************************************)
\* The statuses an entry can hold, with a message that names the entry.
Statuses(key) ==
    {ActiveStatus, BlockedStatus(key \o " is blocked"),
     MaintenanceStatus(key \o " is in maintenance"), WaitingStatus(key \o " is waiting")}

InitStatus ==
    /\ registry = {}
    /\ \E state \in {"active", "inactive", "absent"} :
          snap = [state |-> state, rev |-> Revision(LocalUnit)]
    /\ configFile = None
    /\ config = [config_file |-> None, probes_file |-> None]
    /\ peers = NoRelation
    /\ localPeerData = <<>>
    /\ \E s \in Statuses("snap"), c \in Statuses("config"), p \in Statuses("probes_file") :
          stored = [snap |-> s, config |-> c, probes_file |-> p]
    /\ phase = "running"
    /\ jobs = <<>>
    /\ last = NoEvent
    /\ pc = [u \in Units |-> "idle"]
    /\ seen = [u \in Units |-> FALSE]
    /\ host = DefaultHost
    /\ doc = NoDoc

\* The status query: unit_status is what it reports.
CollectStatus ==
    /\ last' = Record(LocalUnit, "collect-status", <<"_collect_unit_status">>, FALSE, FALSE,
                      FALSE, "none")
    /\ UNCHANGED <<registry, snap, configFile, config, peers, localPeerData, stored, phase,
                   jobs, pc, seen, host, doc>>

NextStatus == CollectStatus

SpecStatus == InitStatus /\ [][NextStatus]_vars

\* The tracked entries in their order, and the first blocked one.
C17_Entries == <<stored.snap, stored.config, stored.probes_file>>
C17_AnyBlocked == \E i \in 1 .. 3 : C17_Entries[i][1] = "blocked"
C17_FirstBlocked ==
    C17_Entries[CHOOSE i \in 1 .. 3 :
                    /\ C17_Entries[i][1] = "blocked"
                    /\ \A j \in 1 .. (i - 1) : C17_Entries[j][1] # "blocked"]
C17_AnyDegraded == \E i \in 1 .. 3 : C17_Entries[i][1] \in {"maintenance", "waiting"}

\* C17 as stated: the unit status is the first blocked entry when there is
\* one, otherwise degraded when an entry is degraded, otherwise active.
C17_TrackedOnly ==
    last.event = "collect-status"
        => /\ C17_AnyBlocked => unit_status = C17_FirstBlocked
           /\ (~C17_AnyBlocked /\ C17_AnyDegraded)
                 => unit_status[1] \in {"maintenance", "waiting"}
           /\ (~C17_AnyBlocked /\ ~C17_AnyDegraded) => unit_status = ActiveStatus

\* C17: the unit status is the first blocked entry in the order snap,
\* config, probes_file when there is one; otherwise it is blocked with the
\* message of the live check when the snap is not active; otherwise it is
\* degraded when an entry is degraded; otherwise it is active.
C17_Composition ==
    last.event = "collect-status"
        => /\ C17_AnyBlocked => unit_status = C17_FirstBlocked
           /\ (~C17_AnyBlocked /\ snap.state # "active") => unit_status = SnapInactive
           /\ (~C17_AnyBlocked /\ snap.state = "active" /\ C17_AnyDegraded)
                 => unit_status[1] \in {"maintenance", "waiting"}
           /\ (~C17_AnyBlocked /\ snap.state = "active" /\ ~C17_AnyDegraded)
                 => unit_status = ActiveStatus

\* Two blocked entries and a snap that is not active: the status is the
\* one of the configuration, the first of them.
C17_Witness ==
    /\ last.event = "collect-status"
    /\ stored.snap[1] = "waiting"
    /\ stored.config[1] = "blocked"
    /\ stored.probes_file[1] = "blocked"
    /\ snap.state = "inactive"
    /\ unit_status = BlockedStatus("config is blocked")

\* C18: a hook with config_file empty leaves the default configuration in
\* the config file, and restarts the snap exactly when the file did not
\* hold the default configuration before.
C18_EmptyMeansDefault ==
    [][(last'.pushed /\ config.config_file = "")
          => /\ configFile' = DEFAULT_CONFIG_FILE
             /\ Called(last', "restart") <=> configFile # DEFAULT_CONFIG_FILE
             /\ Called(last', "write_text") <=> configFile # DEFAULT_CONFIG_FILE]_vars

\* A hook with config_file empty has put the default configuration in
\* place and has restarted the snap.
C18_Witness ==
    /\ LocalPush
    /\ config.config_file = ""
    /\ configFile = DEFAULT_CONFIG_FILE
    /\ last.ret
    /\ Called(last, "restart")

\* How many times the hook that has just run made the call c.
Count(rec, c) == Cardinality({i \in DOMAIN rec.calls : rec.calls[i] = c})

\* C20: every run of _push_config sets the configuration status entry
\* exactly once and writes the config file at most once.
C20_OneStatusMutation ==
    LocalPush
        => /\ Count(last, "set_config_status") = 1
           /\ Count(last, "write_text") <= 1

\* C21: a hook starts the snap at most once, and the update-status hook
\* that follows an install hook whose start failed starts the snap again.
C21_StartRetriedNextEvent ==
    [][/\ Count(last', "start") <= 1
       /\ (/\ last.unit = LocalUnit
           /\ last.event = "install"
           /\ last.start = "SnapError"
           /\ ~last.raised
           /\ last'.unit = LocalUnit
           /\ last'.event = "update-status")
              => Called(last', "start")]_vars

\* The hooks whose handlers __init__ registers, and all the hooks.
C22_Observed == InstallEvents \cup RunningEvents
C22_AllEvents == C22_Observed \cup {"remove"}

\* What the reconciler does in the hook that has just run: the validator
\* runs once, and the restart is called once if it rewrote the config file
\* and not at all otherwise.
C22_Reconciled ==
    /\ last.pushed
    /\ Count(last, "_push_config") = 1
    /\ last.ret <=> Called(last, "write_text")
    /\ Called(last, "restart") <=> last.ret
    /\ Count(last, "restart") <= 1

C23_RestartFailed(rec, snapAfter) ==
    rec.unit = LocalUnit /\ rec.pushed /\ Called(rec, "restart") /\ snapAfter.state # "active"

\* The record _update_peer_relation_data publishes for the local unit.
C23_Published(data) ==
    /\ {"principal-unit", "principal-hostname", "unit-networks", "az"} \subseteq DOMAIN data
    /\ data["principal-unit"] = principal_unit
    /\ data["principal-hostname"] = PRINCIPAL_HOSTNAME
    /\ data["az"] = availability_zone
    /\ json_loads(data["unit-networks"]) =
           [i \in DOMAIN get_unit_networks(host) |-> to_dict(get_unit_networks(host)[i])]

\* C23: when the restart that follows a config change fails, no exception
\* leaves the hook, the status entries are those the hook would leave with
\* a restart that worked (configuration active, the workload entry as it
\* was, the probes entry as the composition left it), the config file holds
\* the new content, and on peers-relation-joined the local unit's record is
\* still published.
C23_RestartFailureSoft ==
    [][C23_RestartFailed(last', snap')
          => /\ ~last'.raised
             /\ phase' = "running"
             /\ last'.ret
             /\ configFile' = EffectiveConfig(config.config_file)
             /\ stored'.config = ActiveStatus
             /\ stored'.snap = stored.snap
             /\ stored'.probes_file =
                    Apply(stored, "probes_file",
                          _all_scrape_jobs(peers, HookOrder, config.probes_file).status).probes_file
             /\ (last'.event = "peers-relation-joined")
                    => (Called(last', "update_peer_data") /\ C23_Published(localPeerData'))]_vars

C23_Witness ==
    /\ C23_RestartFailed(last, snap)
    /\ last.event = "peers-relation-joined"
    /\ snap.state = "inactive"
    /\ configFile = VALID_CONFIG
    /\ C23_Published(localPeerData)

\* C24: a peers-relation-joined hook of the local unit publishes the
\* record with principal-unit, principal-hostname, unit-networks and az,
\* whatever _push_config did; every other hook, and every hook without the
\* peer relation, leaves the local unit's record as it was.
C24_PublishedOnJoined ==
    [][(last'.unit = LocalUnit /\ last'.event \in C22_AllEvents)
          => IF last'.event = "peers-relation-joined" /\ peers.exists
             THEN Called(last', "update_peer_data") /\ C23_Published(localPeerData')
             ELSE ~Called(last', "update_peer_data") /\ localPeerData' = localPeerData]_vars

\* C25: when the snap is not active the unit status is blocked, with the
\* message of the live check if the three stored entries are all active;
\* and when a stored entry is blocked, the unit status is that of a blocked
\* entry and never the one of the live check.
C25_LiveCheckLayered ==
    last.event = "collect-status"
        => /\ snap.state # "active" => unit_status[1] = "blocked"
           /\ (snap.state # "active" /\ \A i \in 1 .. 3 : C17_Entries[i] = ActiveStatus)
                 => unit_status = SnapInactive
           /\ C17_AnyBlocked
                 => /\ unit_status # SnapInactive
                    /\ \E i \in 1 .. 3 : C17_Entries[i][1] = "blocked" /\ unit_status = C17_Entries[i]

C25_Witness ==
    /\ last.event = "collect-status"
    /\ \A i \in 1 .. 3 : C17_Entries[i] = ActiveStatus
    /\ snap.state = "inactive"
    /\ unit_status = SnapInactive

\* The three entries of _stored.status.
C26_Keys == {"snap", "config", "probes_file"}

\* The step that has just run is the owner of the entry: _install_snaps
\* that started the snap for the workload entry, _push_config that set a
\* status for the configuration entry, _custom_scrape_jobs (called on a
\* non-empty probes_file) for the probes entry.
C26_Owner(key, rec, probes_file) ==
    /\ rec.unit = LocalUnit
    /\ CASE key = "snap" -> rec.event \in InstallEvents /\ Called(rec, "start")
         [] key = "config" -> Called(rec, "set_config_status")
         [] key = "probes_file" -> rec.pushed /\ ~Falsy(probes_file)

\* C26: _stored.status starts with the three entries snap, config and
\* probes_file, all active; it always holds exactly these three; and an
\* entry changes only in a step of its owner.
C26_ThreeEntriesOwned ==
    /\ \A k \in C26_Keys : stored[k] = ActiveStatus
    /\ [](DOMAIN stored = C26_Keys)
    /\ [][\A k \in C26_Keys :
              stored'[k] # stored[k] => C26_Owner(k, last', config.probes_file)]_vars

C26_Witness ==
    /\ DOMAIN stored = C26_Keys
    /\ stored.snap = ActiveStatus
    /\ stored.config[1] = "blocked"
    /\ stored.probes_file[1] = "blocked"
    /\ last.event = "update-status"
    /\ Called(last, "set_config_status")

\* The state of the workload when the hook that has just run called the
\* restart: the one the start of this hook left, or without a start the one
\* the hook found.
C27_StateAtRestart(rec, snapBefore) ==
    CASE rec.start = "ok" -> "active"
      [] rec.start = "none" -> snapBefore.state
      [] OTHER -> IF snapBefore.state = "absent" THEN "inactive" ELSE snapBefore.state

\* C27: a restart is called only on an active workload: never after the
\* start of the same install hook failed, never on a workload that is
\* absent (so that the install comes before the first restart).
C27_RestartOnlyWhenActive ==
    [][Called(last', "restart") => C27_StateAtRestart(last', snap) = "active"]_vars

\* C28: every job composed has at least one static_config, and every
\* static_config at least one target.
C28_NoEmptyStaticConfigs ==
    (Composing /\ ~last.raised)
        => \A i \in DOMAIN jobs :
              /\ Len(jobs[i].static_configs) >= 1
              /\ \A j \in DOMAIN jobs[i].static_configs :
                    Len(jobs[i].static_configs[j].targets) >= 1

\* C29: a hook that finds the configuration entry blocked, and config_file
\* unset or equal to the valid content of the config file, leaves the
\* configuration entry active.
C29_ConfigUnblocked ==
    [][(/\ stored.config[1] = "blocked"
        /\ last'.unit = LocalUnit
        /\ last'.pushed
        /\ ~last'.raised
        /\ \/ config.config_file = None
           \/ config.config_file = configFile /\ config.config_file \in ValidConfigs)
          => stored'.config = ActiveStatus]_vars

\* C30: a hook that finds the probes entry blocked, and probes_file unset
\* or empty, leaves the probes entry active, and the unit status is no
\* longer the blocked status of the probes.
C30_ProbesUnblocked ==
    [][(/\ stored.probes_file[1] = "blocked"
        /\ last'.unit = LocalUnit
        /\ last'.pushed
        /\ ~last'.raised
        /\ Falsy(config.probes_file))
          => /\ stored'.probes_file = ActiveStatus
             /\ _collect_unit_status(stored', snap'.state) # stored.probes_file]_vars

\* C31: in every interleaving of the steps of _install_snaps of the units
\* of one machine, a unit calls install_snap only while its revision is not
\* below any revision registered at that moment, and once every unit has
\* finished its _install_snaps the snap is at the highest registered
\* revision.
C31_InstallNotOverHigher ==
    /\ (last.event = "step" /\ last.calls = <<"install_snap">>)
           => \A r \in registry : Revision(last.unit) >= r.rev
    /\ (\A u \in Units : pc[u] = "running")
           => snap.rev = Max(get_revisions(registry))

\* The contents that parse and have a `modules` mapping.
C32_ValidContents == ValidConfigs \cup {DEFAULT_CONFIG_FILE}

\* C32: the config file, once the charm has written it, always holds
\* content that parses and has a `modules` mapping; every write is made in
\* a hook of the local unit and leaves in the file the config_file value of
\* that hook, or the default configuration when the value is unset or
\* empty; a config_file value that is invalid is never written.
C32_OnlyValidWritten ==
    /\ [](configFile = None \/ configFile \in C32_ValidContents)
    /\ [][configFile' # configFile
             => /\ last'.unit = LocalUnit
                /\ Called(last', "write_text")
                /\ configFile' \notin InvalidConfigs
                /\ \/ configFile' = config.config_file
                   \/ Falsy(config.config_file) /\ configFile' = DEFAULT_CONFIG_FILE]_vars

\* An invalid config_file has just been refused, and the file keeps the
\* valid content of an earlier hook.
C32_Witness ==
    /\ LocalPush
    /\ config.config_file = INVALID_YAML_CONFIG
    /\ configFile = VALID_YAML_WITH_BAD_MODULES
    /\ stored.config = ConfigInvalid
    /\ ~Called(last, "write_text")

\* Two compositions have just followed each other, neither raising.
C33_Repeated ==
    /\ Composing
    /\ ~last.raised
    /\ last'.event = "compose"
    /\ ~last'.raised

\* The hostname prefix is on each custom job name exactly once.
C33_PrefixedOnce(composed, text) ==
    /\ Len(composed) = BeforeCustom + Len(C11_JobNames(text))
    /\ \A i \in 1 .. Len(C11_JobNames(text)) :
          composed[BeforeCustom + i].job_name = PRINCIPAL_HOSTNAME \o "-" \o C11_JobNames(text)[i]

\* Two sequences hold the same elements as many times each.
C33_SameBag(s, t) ==
    /\ Len(s) = Len(t)
    /\ \A x \in {s[i] : i \in DOMAIN s} \cup {t[i] : i \in DOMAIN t} :
          Cardinality({i \in DOMAIN s : s[i] = x}) = Cardinality({i \in DOMAIN t : t[i] = x})

\* Two job lists are equal but for the order of the static_configs of the
\* connectivity job.
C33_SameButPeerOrder(a, b) ==
    /\ Len(a) = Len(b)
    /\ \A i \in DOMAIN a :
          IF peers.exists /\ i = 2
          THEN /\ [a[i] EXCEPT !.static_configs = <<>>] = [b[i] EXCEPT !.static_configs = <<>>]
               /\ C33_SameBag(a[i].static_configs, b[i].static_configs)
          ELSE a[i] = b[i]

C34_RemoveTearsDownOnly ==
    [][last'.event \in C22_AllEvents
          => /\ (last'.unit = LocalUnit /\ last'.event = "remove")
                   => /\ ~last'.pushed
                      /\ ~Called(last', "_push_config")
                      /\ ~Called(last', "write_text")
                      /\ ~Called(last', "update_peer_data")
                      /\ configFile' = configFile
                      /\ localPeerData' = localPeerData
                      /\ jobs' = jobs
                      /\ stored' = stored
             /\ Called(last', "register") <=> last'.event \in {"install", "upgrade"}
             /\ Called(last', "unregister") <=> last'.event = "remove"]_vars

\* The unit has been removed while a valid config_file that the file does
\* not hold, and an invalid probes_file that the probes entry does not
\* show, were waiting for the next hook.
C34_Witness ==
    /\ last.unit = LocalUnit
    /\ last.event = "remove"
    /\ phase = "gone"
    /\ config.config_file = VALID_CONFIG
    /\ configFile # VALID_CONFIG
    /\ config.probes_file = INVALID_PROBES_FILE
    /\ stored.probes_file = ActiveStatus

====
